---- MODULE Spec2Model ----
(***************************************************************************)
(* Model of src/core/theme/variables.js: hexToRgb, getDarkModeColors and   *)
(* computeThemeVariables.                                                  *)
(*                                                                         *)
(* JavaScript values are tagged records.  A JavaScript string is a         *)
(* sequence of one-character strings, so that the regular expressions and  *)
(* the template literals of the source act on characters.  Objects live in *)
(* a heap (a sequence of records) and are passed by reference, so that an  *)
(* assignment to a field of the caller's object is visible in the model.   *)
(***************************************************************************)
EXTENDS Integers, Sequences, FiniteSets, TLC

VARIABLES
  hexIn,        \* the argument of a call of hexToRgb
  hexOut,       \* what that call returned
  hexDone,      \* whether that call was made
  callerTheme,  \* the caller's theme object (or null), kept across calls
  lastMode,     \* isDarkMode of the last call of computeThemeVariables
  output,       \* the object the last call returned
  called,       \* whether computeThemeVariables was called
  themeBefore,  \* the caller's theme object as it was before the last call
  lightBefore,  \* what a call with isDarkMode = false returned before any
                \* call with isDarkMode = true was made
  darkSeen      \* whether a call with isDarkMode = true was made

vars == <<hexIn, hexOut, hexDone,
          callerTheme, lastMode, output, called, themeBefore, lightBefore,
          darkSeen>>

\* Longest string handed to hexToRgb.
MaxLen == 7
\* Longest listColors array of a theme.
MaxList == 2

(***************************************************************************)
(* JavaScript values                                                       *)
(***************************************************************************)
Undefined == [t |-> "undefined"]
Null == [t |-> "null"]
Str(s) == [t |-> "string", s |-> s]
Num(n) == [t |-> "number", n |-> n]
Arr(a) == [t |-> "array", a |-> a]
Ref(id) == [t |-> "ref", id |-> id]
Rgb(r, g, b) == [t |-> "rgb", r |-> r, g |-> g, b |-> b]

\* ToBoolean, as used by `!hex`, `!colorTheme`, `if (originalTheme.primary)`
Truthy(v) ==
  CASE v.t = "undefined" -> FALSE
    [] v.t = "null" -> FALSE
    [] v.t = "string" -> Len(v.s) > 0
    [] v.t = "number" -> v.n # 0
    [] OTHER -> TRUE

(***************************************************************************)
(* hexToRgb                                                                *)
(***************************************************************************)
HexDigitsLower ==
  <<"0", "1", "2", "3", "4", "5", "6", "7", "8", "9", "a", "b", "c", "d", "e", "f">>
HexDigitsUpper ==
  <<"0", "1", "2", "3", "4", "5", "6", "7", "8", "9", "A", "B", "C", "D", "E", "F">>

\* The character class [a-f\d] under the flag i.
IsHexDigit(c) ==
  \E i \in 1..16 : HexDigitsLower[i] = c \/ HexDigitsUpper[i] = c

\* The value parseInt(_, 16) gives one hex digit.
HexVal(c) ==
  (CHOOSE i \in 1..16 : HexDigitsLower[i] = c \/ HexDigitsUpper[i] = c) - 1

AllHex(s) == \A i \in 1..Len(s) : IsHexDigit(s[i])

\* hex.replace('#', ''): a string pattern replaces its first occurrence,
\* wherever it stands, and no other.
ReplaceHash(s) ==
  LET at == {i \in 1..Len(s) : s[i] = "#"} IN
  IF at = {} THEN s
  ELSE LET i == CHOOSE j \in at : \A k \in at : j <= k
       IN SubSeq(s, 1, i - 1) \o SubSeq(s, i + 1, Len(s))

\* A faulty variant of ExpandShorthand: the three digits are repeated as a
\* group, r + g + b + r + g + b.
ExpandShorthandRepeated(s) ==
  IF Len(s) = 3 /\ AllHex(s)
  THEN <<s[1], s[2], s[3], s[1], s[2], s[3]>>
  ELSE s

\* cleanHex.replace(shorthand, (m, r, g, b) => r + r + g + g + b + b); the
\* pattern is anchored at both ends, so it matches the whole string or nothing.
ExpandShorthand(s) ==
  IF Len(s) = 3 /\ AllHex(s)
  THEN <<s[1], s[1], s[2], s[2], s[3], s[3]>>
  ELSE s

\* parseInt(m[k], 16) of a two-digit group
ParseInt16(hi, lo) == 16 * HexVal(hi) + HexVal(lo)

hexToRgb(hex) ==
  IF ~Truthy(hex) \/ hex.t # "string" THEN Null
  ELSE LET cleanHex == ReplaceHash(hex.s)
           full == ExpandShorthand(cleanHex)
       IN IF ~(Len(full) = 6 /\ AllHex(full)) THEN Null
          ELSE Rgb(ParseInt16(full[1], full[2]),
                   ParseInt16(full[3], full[4]),
                   ParseInt16(full[5], full[6]))

(***************************************************************************)
(* Template literals                                                       *)
(***************************************************************************)
DecDigits == <<"0", "1", "2", "3", "4", "5", "6", "7", "8", "9">>

RECURSIVE NatToString(_)
NatToString(n) ==
  IF n < 10 THEN <<DecDigits[n + 1]>>
  ELSE NatToString(n \div 10) \o <<DecDigits[(n % 10) + 1]>>

\* `${n}` for an integer n
NumToString(n) == IF n < 0 THEN <<"-">> \o NatToString(-n) ELSE NatToString(n)

\* `${a}, ${b}, ${c}`
CommaJoin(a, b, c) ==
  NumToString(a) \o <<",", " ">> \o NumToString(b) \o <<",", " ">> \o NumToString(c)

\* `rgb(${a}, ${b}, ${c})`
RgbString(a, b, c) == Str(<<"r", "g", "b", "(">> \o CommaJoin(a, b, c) \o <<")">>)

\* `rgba(${rgb.r}, ${rgb.g}, ${rgb.b}, 0.NN)`; alpha is the literal text 0.NN
RgbaString(rgb, alpha) ==
  Str(<<"r", "g", "b", "a", "(">> \o CommaJoin(rgb.r, rgb.g, rgb.b)
        \o <<",", " ">> \o alpha \o <<")">>)

\* `${rgb.r}, ${rgb.g}, ${rgb.b}`
RgbList(rgb) == Str(CommaJoin(rgb.r, rgb.g, rgb.b))

(***************************************************************************)
(* getDarkModeColors                                                       *)
(***************************************************************************)
Hex6(a, b, c, d, e, f) == Str(<<"#", a, b, c, d, e, f>>)

\* 'rgba(255, 255, 255, <alpha>)' as written in the source
WhiteAlpha(alpha) ==
  Str(<<"r", "g", "b", "a", "(", "2", "5", "5", ",", " ", "2", "5", "5", ",", " ",
        "2", "5", "5", ",", " ">> \o alpha \o <<")">>)

\* A faulty variant of DarkPalette: values moved to neighbouring fields.
DarkPaletteShifted ==
  [bgPrimary |-> Hex6("2", "d", "2", "d", "2", "d"),
   bgSecondary |-> Hex6("3", "a", "3", "a", "3", "a"),
   bgTertiary |-> Hex6("1", "a", "1", "a", "1", "a"),
   textPrimary |-> Hex6("b", "3", "b", "3", "b", "3"),
   textSecondary |-> Hex6("8", "8", "8", "8", "8", "8"),
   textTertiary |-> Hex6("e", "6", "e", "6", "e", "6"),
   borderLight |-> Hex6("5", "5", "5", "5", "5", "5"),
   borderMedium |-> Hex6("4", "0", "4", "0", "4", "0"),
   inlineCodeBg |-> WhiteAlpha(<<"0", ".", "1", "5">>),
   inlineCodeText |-> Hex6("f", "8", "f", "8", "f", "2"),
   inlineCodeBorder |-> WhiteAlpha(<<"0", ".", "1">>),
   blockquoteBackground |-> WhiteAlpha(<<"0", ".", "0", "5">>),
   tableHeaderBg |-> Hex6("4", "0", "4", "0", "4", "0"),
   tableBorder |-> Hex6("2", "d", "2", "d", "2", "d")]

\* The literal fields of the object literal of getDarkModeColors.
DarkPalette ==
  [bgPrimary |-> Hex6("1", "a", "1", "a", "1", "a"),
   bgSecondary |-> Hex6("2", "d", "2", "d", "2", "d"),
   bgTertiary |-> Hex6("3", "a", "3", "a", "3", "a"),
   textPrimary |-> Hex6("e", "6", "e", "6", "e", "6"),
   textSecondary |-> Hex6("b", "3", "b", "3", "b", "3"),
   textTertiary |-> Hex6("8", "8", "8", "8", "8", "8"),
   borderLight |-> Hex6("4", "0", "4", "0", "4", "0"),
   borderMedium |-> Hex6("5", "5", "5", "5", "5", "5"),
   inlineCodeBg |-> WhiteAlpha(<<"0", ".", "1">>),
   inlineCodeText |-> Hex6("f", "8", "f", "8", "f", "2"),
   inlineCodeBorder |-> WhiteAlpha(<<"0", ".", "1", "5">>),
   blockquoteBackground |-> WhiteAlpha(<<"0", ".", "0", "5">>),
   tableHeaderBg |-> Hex6("2", "d", "2", "d", "2", "d"),
   tableBorder |-> Hex6("4", "0", "4", "0", "4", "0")]

\* A faulty variant of KeepPrimary: the two fields are not overridden.
KeepPrimaryNone(original) == [f \in {} |-> Undefined]

\* blockquoteBorder: originalTheme.primary and hrColor: originalTheme.primary

KeepPrimary(original) ==
  [blockquoteBorder |-> original.primary, hrColor |-> original.primary]

\* The fields of { ...originalTheme, <overrides> }: a later key wins.
Overridden(original) ==
  LET over == DarkPalette @@ KeepPrimary(original)
  IN [f \in DOMAIN original |-> IF f \in DOMAIN over THEN over[f] ELSE original[f]]

\* A faulty variant of Spread: the overrides are written into the object
\* passed in, as Object.assign(originalTheme, { ... }) would.
SpreadInPlace(heap, originalTheme) ==
  [heap |-> [heap EXCEPT ![originalTheme.id] = Overridden(heap[originalTheme.id])],
   ref |-> originalTheme]

\* let adjustedTheme = { ...originalTheme, ... } allocates a new object.
Spread(heap, originalTheme) ==
  [heap |-> Append(heap, Overridden(heap[originalTheme.id])),
   ref |-> Ref(Len(heap) + 1)]

\* brightness = (r * 299 + g * 587 + b * 114) / 1000, kept times 1000: the
\* division is by a positive constant, so brightness < 128 is Luma < 128000.
Luma(rgb) == rgb.r * 299 + rgb.g * 587 + rgb.b * 114

\* A faulty variant of TooDark: brightness <= 128.
TooDarkInclusive(rgb) == Luma(rgb) <= 128 * 1000

\* brightness < 128
TooDark(rgb) == Luma(rgb) < 128 * 1000

Min(a, b) == IF a < b THEN a ELSE b

\* A faulty variant of Lighter: no Math.min.
LighterUnclamped(x) == x + 80

\* Math.min(255, x + 80)

Lighter(x) == Min(255, x + 80)

\* Math.min(255, lighter + 20)
HoverOf(lighter) == Min(255, lighter + 20)

\* Math.min(255, lighter - 20)
DarkOf(lighter) == Min(255, lighter - 20)

\* The three assignments to adjustedTheme of the branch brightness < 128.
Brighten(theme, rgb) ==
  LET lighterR == Lighter(rgb.r)
      lighterG == Lighter(rgb.g)
      lighterB == Lighter(rgb.b)
  IN [theme EXCEPT
        !.primary = RgbString(lighterR, lighterG, lighterB),
        !.primaryHover = RgbString(HoverOf(lighterR), HoverOf(lighterG), HoverOf(lighterB)),
        !.primaryDark = RgbString(DarkOf(lighterR), DarkOf(lighterG), DarkOf(lighterB))]

\* Returns the heap after the call and the reference the call returns.
getDarkModeColors(heap, originalTheme) ==
  LET new == Spread(heap, originalTheme)
      adjustedTheme == new.ref
      primary == new.heap[originalTheme.id].primary
      rgb == hexToRgb(primary)
  IN IF Truthy(primary) /\ rgb # Null /\ TooDark(rgb)
     THEN [heap |-> [new.heap EXCEPT ![adjustedTheme.id] = Brighten(@, rgb)],
           ref |-> adjustedTheme]
     ELSE new

(***************************************************************************)
(* computeThemeVariables                                                   *)
(***************************************************************************)
\* The object literal `variables`: each name with the field it reads.
FixedVariables ==
  <<<<"--theme-primary", "primary">>,
    <<"--theme-primary-hover", "primaryHover">>,
    <<"--theme-primary-light", "primaryLight">>,
    <<"--theme-primary-dark", "primaryDark">>,
    <<"--theme-text-primary", "textPrimary">>,
    <<"--theme-text-secondary", "textSecondary">>,
    <<"--theme-text-tertiary", "textTertiary">>,
    <<"--theme-bg-primary", "bgPrimary">>,
    <<"--theme-bg-secondary", "bgSecondary">>,
    <<"--theme-bg-tertiary", "bgTertiary">>,
    <<"--theme-border-light", "borderLight">>,
    <<"--theme-border-medium", "borderMedium">>,
    <<"--theme-inline-code-bg", "inlineCodeBg">>,
    <<"--theme-inline-code-text", "inlineCodeText">>,
    <<"--theme-inline-code-border", "inlineCodeBorder">>,
    <<"--theme-blockquote-border", "blockquoteBorder">>,
    <<"--theme-blockquote-bg", "blockquoteBackground">>,
    <<"--theme-hr-color", "hrColor">>,
    <<"--theme-table-header-bg", "tableHeaderBg">>,
    <<"--theme-table-border", "tableBorder">>>>

\* An object with no property.
EmptyObject == [k \in {} |-> Undefined]

\* A faulty variant of FixedEntries: a property is written only when defined.
FixedEntriesDefined(theme) ==
  LET at == {i \in 1..Len(FixedVariables) : theme[FixedVariables[i][2]] # Undefined}
  IN [k \in {FixedVariables[i][1] : i \in at} |->
        theme[(CHOOSE p \in {FixedVariables[i] : i \in at} : p[1] = k)[2]]]

\* const variables = { '--theme-primary': theme.primary, ... }
FixedEntries(theme) ==
  [k \in {FixedVariables[i][1] : i \in 1..Len(FixedVariables)} |->
     theme[(CHOOSE p \in {FixedVariables[i] : i \in 1..Len(FixedVariables)} : p[1] = k)[2]]]

\* A faulty variant of ListName: the position is used as it is.
ListNameZeroBased(index) == "--theme-list-color-" \o ToString(index)

\* `--theme-list-color-${index + 1}`
ListName(index) == "--theme-list-color-" \o ToString(index + 1)

\* colorTheme.listColors.forEach((color, index) => { variables[...] = color })
\* from position index (0-based) on; the entries it writes.
RECURSIVE ForEachFrom(_, _)
ForEachFrom(listColors, index) ==
  IF index >= Len(listColors) THEN EmptyObject
  ELSE ForEachFrom(listColors, index + 1) @@ (ListName(index) :> listColors[index + 1])

\* if (colorTheme.listColors && Array.isArray(colorTheme.listColors)) ...
ListEntries(listColors) ==
  IF Truthy(listColors) /\ listColors.t = "array"
  THEN ForEachFrom(listColors.a, 0)
  ELSE EmptyObject

\* The six entries written when hexToRgb(colorTheme.primary) is an RGB.
AlphaEntries(primary) ==
  LET rgb == hexToRgb(primary) IN
  IF Truthy(primary) /\ rgb # Null
  THEN ("--theme-primary-rgb" :> RgbList(rgb))
       @@ ("--theme-primary-15" :> RgbaString(rgb, <<"0", ".", "1", "5">>))
       @@ ("--theme-primary-20" :> RgbaString(rgb, <<"0", ".", "2", "0">>))
       @@ ("--theme-primary-25" :> RgbaString(rgb, <<"0", ".", "2", "5">>))
       @@ ("--theme-primary-40" :> RgbaString(rgb, <<"0", ".", "4", "0">>))
       @@ ("--theme-primary-60" :> RgbaString(rgb, <<"0", ".", "6", "0">>))
  ELSE EmptyObject

\* A faulty variant of DerivedSource: the working theme is read.
DerivedSourceWorking(heap, colorTheme, theme) == heap[theme.id]

\* The object whose listColors and primary the derived entries are built
\* from: colorTheme, the argument, not theme, the working theme.
DerivedSource(heap, colorTheme, theme) == heap[colorTheme.id]

\* Returns the heap after the call and the object the call returns.
computeThemeVariables(heap, colorTheme, dark) ==
  IF ~Truthy(colorTheme) THEN [heap |-> heap, variables |-> EmptyObject]
  ELSE LET sel == IF dark THEN getDarkModeColors(heap, colorTheme)
                  ELSE [heap |-> heap, ref |-> colorTheme]
           theme == sel.ref
           src == DerivedSource(sel.heap, colorTheme, theme)
       IN [heap |-> sel.heap,
           variables |-> AlphaEntries(src.primary)
                           @@ ListEntries(src.listColors)
                           @@ FixedEntries(sel.heap[theme.id])]

(***************************************************************************)
(* Inputs                                                                  *)
(***************************************************************************)
\* Characters of the strings handed to hexToRgb: the marker, the least and
\* the greatest hex digit, the latter in both cases, and a letter next to f.
Alphabet == {"#", "0", "f", "F", "g"}

HexStrings == UNION {[1..n -> Alphabet] : n \in 0..MaxLen}

HexInputs == {Str(s) : s \in HexStrings} \cup {Undefined, Null, Num(0), Num(255)}

\* A light theme with a different value in every field.
SampleTheme ==
  [primary |-> Hex6("0", "0", "A", "8", "6", "B"),
   primaryHover |-> Hex6("0", "0", "8", "F", "5", "A"),
   primaryLight |-> Hex6("E", "6", "F", "7", "F", "1"),
   primaryDark |-> Hex6("0", "0", "7", "A", "4", "D"),
   textPrimary |-> Hex6("1", "f", "2", "3", "2", "8"),
   textSecondary |-> Hex6("6", "5", "6", "d", "7", "6"),
   textTertiary |-> Hex6("8", "b", "9", "4", "9", "e"),
   bgPrimary |-> Hex6("f", "f", "f", "f", "f", "f"),
   bgSecondary |-> Hex6("f", "6", "f", "8", "f", "a"),
   bgTertiary |-> Hex6("f", "1", "f", "3", "f", "4"),
   borderLight |-> Hex6("d", "0", "d", "7", "d", "e"),
   borderMedium |-> Hex6("8", "c", "9", "5", "9", "f"),
   inlineCodeBg |-> Str(<<"r", "g", "b", "a", "(", "0", ",", "0", ",", "0", ",", ".", "1", ")">>),
   inlineCodeText |-> Hex6("0", "0", "6", "6", "4", "4"),
   inlineCodeBorder |-> Str(<<"r", "g", "b", "a", "(", "0", ",", "0", ",", "0", ",", ".", "2", ")">>),
   blockquoteBackground |-> Str(<<"r", "g", "b", "a", "(", "0", ",", "0", ",", "0", ",", ".", "3", ")">>),
   blockquoteBorder |-> Hex6("0", "0", "9", "9", "6", "6"),
   hrColor |-> Hex6("0", "0", "b", "b", "7", "7"),
   tableHeaderBg |-> Hex6("f", "0", "f", "0", "f", "0"),
   tableBorder |-> Hex6("d", "d", "d", "d", "d", "d"),
   listColors |-> Undefined]

\* Digits of the shorthand primaries #xyz of the themes.
PrimaryDigits == {"0", "8", "f"}

PrimaryValues ==
  {Str(<<"#", x, y, z>>) : x, y, z \in PrimaryDigits}
  \cup {Undefined, Null, Num(7), Str(<< >>),
        Hex6("8", "0", "8", "0", "8", "0"),
        Hex6("7", "f", "7", "f", "7", "f"),
        Hex6("0", "0", "A", "8", "6", "B"),
        Hex6("0", "0", "0", "0", "1", "3"),
        Str(<<"0", "0", "0", "0", "F", "F">>),
        Str(<<"#", "1", "2", "3", "4", "5">>),
        Str(<<"0", "#", "0", "4">>),
        Str(<<"r", "e", "d">>),
        Str(<<"r", "g", "b", "(", "0", ",", " ", "0", ",", " ", "0", ")">>)}

\* Elements of listColors: colours, and a value that is no colour.
ListElements == {Hex6("1", "1", "1", "1", "1", "1"), Str(<<"x">>)}

ListValues ==
  {Arr(a) : a \in UNION {[1..n -> ListElements] : n \in 0..MaxList}}
  \cup {Undefined, Str(<<"#", "1", "1", "1">>)}

PrimaryFamily == {"primaryHover", "primaryLight", "primaryDark"}
KeptPrimary == {"blockquoteBorder", "hrColor"}

\* The theme with the given primary and listColors; present names the other
\* fields it has, each with its value of SampleTheme.
MakeTheme(primary, listColors, present) ==
  [f \in DOMAIN SampleTheme |->
     CASE f = "primary" -> primary
       [] f = "listColors" -> listColors
       [] OTHER -> IF f \in present THEN SampleTheme[f] ELSE Undefined]

Themes ==
  {MakeTheme(p, l, family \cup kept \cup palette) :
     p \in PrimaryValues, l \in ListValues,
     family \in {{}, {"primaryLight"}, {"primaryHover", "primaryDark"}, PrimaryFamily},
     kept \in SUBSET KeptPrimary,
     palette \in {{}, DOMAIN DarkPalette}}

(***************************************************************************)
(* The calls                                                               *)
(***************************************************************************)
NoCall == [t |-> "none"]

InitHex ==
  /\ hexIn \in HexInputs
  /\ hexOut = NoCall
  /\ hexDone = FALSE
  /\ callerTheme = Null
  /\ lastMode = FALSE
  /\ output = NoCall
  /\ called = FALSE
  /\ themeBefore = Null
  /\ lightBefore = NoCall
  /\ darkSeen = FALSE

\* hexToRgb(hexIn)
CallHexToRgb ==
  /\ ~hexDone
  /\ hexOut' = hexToRgb(hexIn)
  /\ hexDone' = TRUE
  /\ UNCHANGED <<hexIn, callerTheme, lastMode, output, called, themeBefore,
                  lightBefore, darkSeen>>

NextHex == CallHexToRgb

SpecHex == InitHex /\ [][NextHex]_vars

Init ==
  /\ hexIn = Undefined
  /\ hexOut = NoCall
  /\ hexDone = FALSE
  /\ callerTheme \in Themes \cup {Null}
  /\ lastMode = FALSE
  /\ output = NoCall
  /\ called = FALSE
  /\ themeBefore = callerTheme
  /\ lightBefore = NoCall
  /\ darkSeen = FALSE

\* computeThemeVariables(callerTheme, dark); the caller's object is cell 1 of
\* the heap the call starts with and is read back once the call returned.
CallComputeThemeVariables ==
  \E dark \in BOOLEAN :
    LET heap == IF callerTheme = Null THEN << >> ELSE <<callerTheme>>
        arg == IF callerTheme = Null THEN Null ELSE Ref(1)
        res == computeThemeVariables(heap, arg, dark)
    IN /\ themeBefore' = callerTheme
       /\ callerTheme' = IF callerTheme = Null THEN Null ELSE res.heap[1]
       /\ lastMode' = dark
       /\ output' = res.variables
       /\ called' = TRUE
       /\ lightBefore' = IF ~dark /\ ~darkSeen /\ lightBefore = NoCall
                         THEN res.variables ELSE lightBefore
       /\ darkSeen' = (darkSeen \/ dark)
       /\ UNCHANGED <<hexIn, hexOut, hexDone>>

Next == CallComputeThemeVariables

Spec == Init /\ [][Next]_vars

(***************************************************************************)
(* Definitions the properties are stated with.  They are written from the  *)
(* statements themselves: digit values, the well-formed shape, the names   *)
(* and the reading of numbers out of a string are defined here anew.       *)
(***************************************************************************)
\* The value of a hex digit, upper or lower case.
DigitValue ==
  ("0" :> 0) @@ ("1" :> 1) @@ ("2" :> 2) @@ ("3" :> 3) @@ ("4" :> 4)
  @@ ("5" :> 5) @@ ("6" :> 6) @@ ("7" :> 7) @@ ("8" :> 8) @@ ("9" :> 9)
  @@ ("a" :> 10) @@ ("b" :> 11) @@ ("c" :> 12) @@ ("d" :> 13) @@ ("e" :> 14)
  @@ ("f" :> 15) @@ ("A" :> 10) @@ ("B" :> 11) @@ ("C" :> 12) @@ ("D" :> 13)
  @@ ("E" :> 14) @@ ("F" :> 15)

\* An optional single leading '#', then exactly 3 or exactly 6 hex digits.
WellFormedHex(v) ==
  /\ v.t = "string"
  /\ LET body == IF Len(v.s) > 0 /\ v.s[1] = "#" THEN Tail(v.s) ELSE v.s
     IN /\ Len(body) \in {3, 6}
        /\ \A i \in 1..Len(body) : body[i] \in DOMAIN DigitValue

IsRgb(v) == v.t = "rgb"

NotHash(c) == c # "#"

\* The digits of a string: what is left with every '#' taken out.
DigitsOf(v) == SelectSeq(v.s, NotHash)

\* The numbers written in a string, in order: each maximal run of decimal
\* digits, negative when a '-' stands right before it.
IsDec(c) == c \in {"0", "1", "2", "3", "4", "5", "6", "7", "8", "9"}

RECURSIVE RunValue(_, _, _)
RunValue(s, i, acc) ==
  IF i > Len(s) \/ ~IsDec(s[i]) THEN acc
  ELSE RunValue(s, i + 1, 10 * acc + DigitValue[s[i]])

RECURSIVE NumbersFrom(_, _)
NumbersFrom(s, i) ==
  IF i > Len(s) THEN << >>
  ELSE IF IsDec(s[i]) /\ (i = 1 \/ ~IsDec(s[i - 1]))
       THEN <<IF i > 1 /\ s[i - 1] = "-" THEN -RunValue(s, i, 0) ELSE RunValue(s, i, 0)>>
            \o NumbersFrom(s, i + 1)
       ELSE NumbersFrom(s, i + 1)

\* The three colour components written in an rgb(...), rgba(...) or "r, g, b" string.
Components(v) == SubSeq(NumbersFrom(v.s, 1), 1, 3)

IsByteTriple(c) == Len(c) = 3 /\ \A i \in 1..3 : c[i] \in 0..255

\* A call of computeThemeVariables on a theme object was made; dark or light.
DarkCall == called /\ lastMode /\ themeBefore # Null
AnyCall == called /\ themeBefore # Null

\* The primary of the input theme parses and its brightness is below 128.
Parsed == hexToRgb(themeBefore.primary)
Brightened == IsRgb(Parsed) /\ Parsed.r * 299 + Parsed.g * 587 + Parsed.b * 114 < 128000

Least(a, b) == IF a <= b THEN a ELSE b

SixNames ==
  {"--theme-primary-rgb", "--theme-primary-15", "--theme-primary-20",
   "--theme-primary-25", "--theme-primary-40", "--theme-primary-60"}

TwentyNames ==
  {"--theme-primary", "--theme-primary-hover", "--theme-primary-light",
   "--theme-primary-dark", "--theme-text-primary", "--theme-text-secondary",
   "--theme-text-tertiary", "--theme-bg-primary", "--theme-bg-secondary",
   "--theme-bg-tertiary", "--theme-border-light", "--theme-border-medium",
   "--theme-inline-code-bg", "--theme-inline-code-text",
   "--theme-inline-code-border", "--theme-blockquote-border",
   "--theme-blockquote-bg", "--theme-hr-color", "--theme-table-header-bg",
   "--theme-table-border"}

ListKey(k) == "--theme-list-color-" \o ToString(k)

\* The part of a mapping under the given names.
Restrict(m, names) == [k \in (DOMAIN m) \cap names |-> m[k]]

(***************************************************************************)
(* hexToRgb                                                                *)
(***************************************************************************)
\* C1: hexToRgb returns an RGB triple if and only if its argument is a
\* string made of an optional single leading '#' followed by exactly 3 or
\* exactly 6 hex digits; for every other argument it returns null.
C1_RgbIffWellFormed ==
  hexDone => /\ IsRgb(hexOut) <=> WellFormedHex(hexIn)
             /\ ~IsRgb(hexOut) => hexOut = Null

\* C2: for every accepted argument the result is the base-16 value of the
\* three digit pairs left after the '#' is taken out and a 3-digit shorthand
\* is doubled digit by digit: a shorthand component is 17 times its digit,
\* case and '#' make no difference, every component is in 0..255.
C2_PairValues ==
  hexDone /\ IsRgb(hexOut) =>
    LET d == DigitsOf(hexIn)
        e == IF Len(d) = 3 THEN <<d[1], d[1], d[2], d[2], d[3], d[3]>> ELSE d
    IN /\ Len(e) = 6
       /\ hexOut = Rgb(16 * DigitValue[e[1]] + DigitValue[e[2]],
                       16 * DigitValue[e[3]] + DigitValue[e[4]],
                       16 * DigitValue[e[5]] + DigitValue[e[6]])
       /\ Len(d) = 3 => hexOut = Rgb(17 * DigitValue[d[1]], 17 * DigitValue[d[2]],
                                     17 * DigitValue[d[3]])
       /\ hexOut.r \in 0..255 /\ hexOut.g \in 0..255 /\ hexOut.b \in 0..255

\* A shorthand with '#' and mixed case was parsed.
C2_Witness ==
  /\ hexDone
  /\ hexIn = Str(<<"#", "f", "0", "F">>)
  /\ hexOut = Rgb(255, 0, 255)

(***************************************************************************)
(* computeThemeVariables                                                   *)
(***************************************************************************)
\* C3: in dark mode, when the primary parses to (r, g, b) with brightness
\* below 128, --theme-primary is rgb(min(255,r+80), min(255,g+80),
\* min(255,b+80)), --theme-primary-hover those components +20 capped at 255
\* and --theme-primary-dark those components -20; otherwise the three are
\* the input theme's primary, primaryHover and primaryDark.
C3_DarkPrimary ==
  DarkCall =>
    IF Brightened
    THEN LET lr == Least(255, Parsed.r + 80)
             lg == Least(255, Parsed.g + 80)
             lb == Least(255, Parsed.b + 80)
         IN /\ output["--theme-primary"] = RgbString(lr, lg, lb)
            /\ output["--theme-primary-hover"] =
                 RgbString(Least(255, lr + 20), Least(255, lg + 20), Least(255, lb + 20))
            /\ output["--theme-primary-dark"] = RgbString(lr - 20, lg - 20, lb - 20)
    ELSE /\ output["--theme-primary"] = themeBefore.primary
         /\ output["--theme-primary-hover"] = themeBefore.primaryHover
         /\ output["--theme-primary-dark"] = themeBefore.primaryDark

\* Dark mode brightened #00f, whose blue component is capped at 255.
C3_Witness ==
  /\ DarkCall
  /\ themeBefore.primary = Str(<<"#", "0", "0", "f">>)
  /\ themeBefore.primaryHover # Undefined
  /\ output["--theme-primary"]
       = Str(<<"r", "g", "b", "(", "8", "0", ",", " ", "8", "0", ",", " ", "2", "5", "5", ")">>)

\* C4: --theme-primary-rgb and --theme-primary-15/20/25/40/60 are built from
\* the components of the input theme's primary in both modes and are the
\* same in light and in dark mode; in dark mode with primary #000000 or #000
\* --theme-primary is rgb(80, 80, 80) and --theme-primary-rgb is 0, 0, 0.
C4_DerivedFromInput ==
  AnyCall =>
    /\ IsRgb(Parsed) =>
         /\ SixNames \subseteq DOMAIN output
         /\ output["--theme-primary-rgb"] = RgbList(Parsed)
         /\ output["--theme-primary-15"] = RgbaString(Parsed, <<"0", ".", "1", "5">>)
         /\ output["--theme-primary-20"] = RgbaString(Parsed, <<"0", ".", "2", "0">>)
         /\ output["--theme-primary-25"] = RgbaString(Parsed, <<"0", ".", "2", "5">>)
         /\ output["--theme-primary-40"] = RgbaString(Parsed, <<"0", ".", "4", "0">>)
         /\ output["--theme-primary-60"] = RgbaString(Parsed, <<"0", ".", "6", "0">>)
    /\ lightBefore # NoCall => Restrict(output, SixNames) = Restrict(lightBefore, SixNames)
    /\ lastMode /\ Parsed = Rgb(0, 0, 0) =>
         /\ output["--theme-primary"]
              = Str(<<"r", "g", "b", "(", "8", "0", ",", " ", "8", "0", ",", " ", "8", "0", ")">>)
         /\ output["--theme-primary-rgb"] = Str(<<"0", ",", " ", "0", ",", " ", "0">>)

\* A dark call after a light one replaced a black primary.
C4_Witness ==
  /\ DarkCall
  /\ lightBefore # NoCall
  /\ Parsed = Rgb(0, 0, 0)
  /\ output["--theme-primary"] # themeBefore.primary
  /\ output["--theme-primary-15"]
       = Str(<<"r", "g", "b", "a", "(", "0", ",", " ", "0", ",", " ", "0", ",", " ",
               "0", ".", "1", "5", ")">>)

\* C5: the names of the returned mapping are none for a null theme, and
\* otherwise the 20 fixed names, --theme-list-color-1..n when listColors is
\* a sequence of length n, and the six rgb/alpha names exactly when the
\* input theme's primary parses.
C5_Names ==
  called =>
    DOMAIN output =
      IF themeBefore = Null THEN {}
      ELSE TwentyNames
           \cup (IF themeBefore.listColors.t = "array"
                 THEN {ListKey(k) : k \in 1..Len(themeBefore.listColors.a)} ELSE {})
           \cup (IF IsRgb(Parsed) THEN SixNames ELSE {})

\* A theme with undefined fields, two list colours and a primary that parses.
C5_Witness ==
  /\ AnyCall
  /\ themeBefore.primaryHover = Undefined
  /\ themeBefore.bgPrimary = Undefined
  /\ themeBefore.listColors.t = "array"
  /\ Len(themeBefore.listColors.a) = 2
  /\ IsRgb(Parsed)
  /\ Cardinality(DOMAIN output) = 28
  /\ output["--theme-primary-hover"] = Undefined

\* 'rgba(255,255,255,<alpha>)', written without blanks
WhiteTight(alpha) ==
  Str(<<"r", "g", "b", "a", "(", "2", "5", "5", ",", "2", "5", "5", ",",
        "2", "5", "5", ",">> \o alpha \o <<")">>)

\* 'rgba(255, 255, 255, <alpha>)', a blank after each comma
WhiteSpaced(alpha) ==
  Str(<<"r", "g", "b", "a", "(", "2", "5", "5", ",", " ", "2", "5", "5", ",", " ",
        "2", "5", "5", ",", " ">> \o alpha \o <<")">>)

\* The entries of the dark palette that are hex colours.
DarkHexEntries ==
  /\ output["--theme-bg-primary"] = Str(<<"#", "1", "a", "1", "a", "1", "a">>)
  /\ output["--theme-bg-secondary"] = Str(<<"#", "2", "d", "2", "d", "2", "d">>)
  /\ output["--theme-bg-tertiary"] = Str(<<"#", "3", "a", "3", "a", "3", "a">>)
  /\ output["--theme-text-primary"] = Str(<<"#", "e", "6", "e", "6", "e", "6">>)
  /\ output["--theme-text-secondary"] = Str(<<"#", "b", "3", "b", "3", "b", "3">>)
  /\ output["--theme-text-tertiary"] = Str(<<"#", "8", "8", "8", "8", "8", "8">>)
  /\ output["--theme-border-light"] = Str(<<"#", "4", "0", "4", "0", "4", "0">>)
  /\ output["--theme-border-medium"] = Str(<<"#", "5", "5", "5", "5", "5", "5">>)
  /\ output["--theme-inline-code-text"] = Str(<<"#", "f", "8", "f", "8", "f", "2">>)
  /\ output["--theme-table-header-bg"] = Str(<<"#", "2", "d", "2", "d", "2", "d">>)
  /\ output["--theme-table-border"] = Str(<<"#", "4", "0", "4", "0", "4", "0">>)
  /\ output["--theme-primary-light"] = themeBefore.primaryLight

\* C6, as stated: in dark mode the palette is emitted with inlineCodeBg
\* rgba(255,255,255,0.1), inlineCodeBorder rgba(255,255,255,0.15) and
\* blockquoteBackground rgba(255,255,255,0.05), and primaryLight passes through.
C6_AsStated ==
  DarkCall =>
    /\ DarkHexEntries
    /\ output["--theme-inline-code-bg"] = WhiteTight(<<"0", ".", "1">>)
    /\ output["--theme-inline-code-border"] = WhiteTight(<<"0", ".", "1", "5">>)
    /\ output["--theme-blockquote-bg"] = WhiteTight(<<"0", ".", "0", "5">>)

\* C6, amended: in dark mode the palette is emitted whatever the theme holds,
\* the three rgba values with a blank after each comma, as
\* rgba(255, 255, 255, 0.1), rgba(255, 255, 255, 0.15) and
\* rgba(255, 255, 255, 0.05), and primaryLight passes through.
C6_DarkPalette ==
  DarkCall =>
    /\ DarkHexEntries
    /\ output["--theme-inline-code-bg"] = WhiteSpaced(<<"0", ".", "1">>)
    /\ output["--theme-inline-code-border"] = WhiteSpaced(<<"0", ".", "1", "5">>)
    /\ output["--theme-blockquote-bg"] = WhiteSpaced(<<"0", ".", "0", "5">>)

\* A dark call on a theme that holds its own values in the palette fields.
C6_Witness ==
  /\ DarkCall
  /\ themeBefore.bgPrimary = Str(<<"#", "f", "f", "f", "f", "f", "f">>)
  /\ themeBefore.inlineCodeBg # Undefined
  /\ themeBefore.primaryLight # Undefined
  /\ output["--theme-bg-primary"] # themeBefore.bgPrimary

\* C7: in dark mode --theme-hr-color and --theme-blockquote-border are the
\* input theme's primary, whatever hrColor and blockquoteBorder it carried
\* and also when --theme-primary is the brightened colour.
C7_KeepPrimary ==
  DarkCall =>
    /\ output["--theme-hr-color"] = themeBefore.primary
    /\ output["--theme-blockquote-border"] = themeBefore.primary

\* Dark mode brightened the primary of a theme with its own hrColor and
\* blockquoteBorder.
C7_Witness ==
  /\ DarkCall
  /\ Brightened
  /\ themeBefore.hrColor \notin {Undefined, themeBefore.primary}
  /\ themeBefore.blockquoteBorder \notin {Undefined, themeBefore.primary}
  /\ output["--theme-primary"] # themeBefore.primary
  /\ output["--theme-hr-color"] = themeBefore.primary

\* C8: for listColors of length n, --theme-list-color-(i+1) is the element at
\* 0-based position i, in both modes and the same in both; no
\* --theme-list-color-k exists for k > n (nor for k = 0).
C8_ListColors ==
  AnyCall /\ themeBefore.listColors.t = "array" =>
    LET a == themeBefore.listColors.a IN
    /\ \A k \in 1..Len(a) : ListKey(k) \in DOMAIN output /\ output[ListKey(k)] = a[k]
    /\ \A k \in {0} \cup (Len(a) + 1)..(MaxList + 2) : ListKey(k) \notin DOMAIN output
    /\ lightBefore # NoCall =>
         \A k \in 1..Len(a) : output[ListKey(k)] = lightBefore[ListKey(k)]

\* A dark call after a light one, on a list with a duplicate that is no colour.
C8_Witness ==
  /\ DarkCall
  /\ lightBefore # NoCall
  /\ themeBefore.listColors = Arr(<<Str(<<"x">>), Str(<<"x">>)>>)
  /\ output["--theme-list-color-2"] = Str(<<"x">>)

\* C9: a call leaves every field of the caller's theme as it was, in either
\* mode, and a light-mode call made after a dark-mode call returns what a
\* light-mode call made before it returned.
C9_InputUnchanged ==
  called =>
    /\ callerTheme = themeBefore
    /\ ~lastMode /\ lightBefore # NoCall => output = lightBefore

\* A light call, then a dark call that brightened, then a light call again.
C9_Witness ==
  /\ AnyCall
  /\ ~lastMode
  /\ darkSeen
  /\ lightBefore # NoCall
  /\ Brightened
  /\ themeBefore.bgPrimary # Undefined

\* The values of the returned mapping that hold computed RGB components.
ComputedEntries ==
  (SixNames \cap DOMAIN output)
  \cup (IF lastMode /\ Brightened
        THEN {"--theme-primary", "--theme-primary-hover", "--theme-primary-dark"}
        ELSE {})

\* C10: every computed RGB component of the returned mapping is an integer
\* in 0..255: those of --theme-primary-rgb and the alpha entries, and in dark
\* mode those of the brightened --theme-primary, -hover and -dark.
C10_Components ==
  AnyCall => \A k \in ComputedEntries : IsByteTriple(Components(output[k]))

\* Dark mode brightened #f00: the red component is capped at 255, the
\* darker variant has 235 and 60.
C10_Witness ==
  /\ DarkCall
  /\ themeBefore.primary = Str(<<"#", "f", "0", "0">>)
  /\ Components(output["--theme-primary"]) = <<255, 80, 80>>
  /\ Components(output["--theme-primary-dark"]) = <<235, 60, 60>>
  /\ Components(output["--theme-primary-rgb"]) = <<255, 0, 0>>

====
